---- MODULE Spec2Model ----
(***************************************************************************)
(* Two text-to-speech HTTP services of botpbx.                             *)
(*                                                                         *)
(*   Service A  config/piper/piper_server.py   (Flask; piper + sox)        *)
(*   Service B  scripts/kokoro-tts-server.py   (http.server; kokoro_onnx)  *)
(*                                                                         *)
(* SpecA is Service A: one request at a time is followed from its arrival  *)
(* to its response through generate(), test() or health().  Handlers of    *)
(* Service A share nothing but the read-only voices directory and the      *)
(* temporary directory, where tempfile gives every request names of its    *)
(* own, so the steps of two handlers commute and requests are followed one *)
(* after the other; files a request leaves behind stay on disk.            *)
(*                                                                         *)
(* SpecB is Service B: requests arrive concurrently and wait in the        *)
(* listening socket; HTTPServer.serve_forever handles them one at a time.  *)
(***************************************************************************)
EXTENDS Integers, Sequences, FiniteSets, TLC

\* ---------------------------------------------------------------- bounds
MaxTextLen == 2      \* longest request text, in characters
MaxRequests == 2     \* requests followed through Service A
MaxRequestsB == 3    \* requests sent to Service B

\* ------------------------------------------------------------ texts
Chars == {" ", "a"}
Whitespace == {" "}

Texts == UNION {[1..n -> Chars] : n \in 0..MaxTextLen}

RECURSIVE LStrip(_)
LStrip(s) == IF s # <<>> /\ Head(s) \in Whitespace THEN LStrip(Tail(s)) ELSE s

RECURSIVE RStrip(_)
RStrip(s) ==
    IF s # <<>> /\ s[Len(s)] \in Whitespace
    THEN RStrip(SubSeq(s, 1, Len(s) - 1))
    ELSE s

\* str.strip()
Strip(s) == RStrip(LStrip(s))

\* ===================================================== Service A (piper)
DEFAULT_VOICE == "en_US-lessac-medium"
OTHER_VOICE == "en_US-ryan-high"
VoiceIds == {DEFAULT_VOICE, OTHER_VOICE}

\* default text of GET /test
TEST_TEXT == <<"H", "i">>

\* A file of VOICES_DIR: <stem><ext>
DirFile(stem, ext) == [stem |-> stem, ext |-> ext]
DirFileNames ==
    {DirFile(DEFAULT_VOICE, ".onnx"), DirFile(DEFAULT_VOICE, ".onnx.json"),
     DirFile(OTHER_VOICE, ".onnx")}

\* f.endswith('.onnx')
EndsWithOnnx(f) == f.ext = ".onnx"

\* The states VOICES_DIR can be in: missing, or a directory with some files
VoicesDirStates ==
    {[exists |-> FALSE, files |-> {}]}
        \cup {[exists |-> TRUE, files |-> fs] : fs \in SUBSET DirFileNames}

\* Temporary files: tempfile picks a name no other file has; the n-th request
\* followed gets <<n, ".wav">>, and tmp_path.replace('.wav', '_8k.wav') of it
\* is <<n, "_8k.wav">>.
NoPath == <<0, "">>
TmpName(n) == <<n, ".wav">>
Replace8k(p) == IF p[2] = ".wav" THEN <<p[1], "_8k.wav">> ELSE p
TmpNames == (1..MaxRequests) \X {".wav", "_8k.wav"}

\* request.json / request.args: text and voice are strings or absent
Data(hasText, text, hasVoice, voice) ==
    [hasText |-> hasText, text |-> text, hasVoice |-> hasVoice, voice |-> voice]
Inputs ==
    {Data(FALSE, <<>>, FALSE, "")}
        \cup {Data(TRUE, t, FALSE, "") : t \in Texts}
        \cup {Data(FALSE, <<>>, TRUE, v) : v \in VoiceIds}
        \cup {Data(TRUE, t, TRUE, v) : t \in Texts, v \in VoiceIds}

NoData == Data(FALSE, <<>>, FALSE, "")

\* Responses.  kind: "json" (jsonify) | "audio" (send_file) | "html" (Flask's
\* own 500 page) | "none"
Resp(status, kind, msg, arg, audio) ==
    [status |-> status, kind |-> kind, msg |-> msg, arg |-> arg, audio |-> audio]
NoResp == Resp(0, "none", "", "", "absent")
JsonError(status, msg, arg) == Resp(status, "json", msg, arg, "absent")

VARIABLES
    voicesDir,   \* VOICES_DIR on disk
    tmpfs,       \* temporary directory: name -> content, "absent" if no file
    nReq,        \* requests received so far
    endpoint,    \* route of the request being handled
    data,        \* its JSON body or query arguments
    pc,          \* where its handler stands
    tmp_path,    \* generate: tmp_path
    output_path, \* generate: output_path
    piper,       \* outcome of subprocess.run(piper_cmd): rc0 rc1 timeout oserror
    sox,         \* outcome of subprocess.run(sox_cmd)
    mktempOK,    \* NamedTemporaryFile returned (FALSE once it has raised)
    created,     \* temporary files created for this request
    resp,        \* its response
    piper_available, \* health: piper_available
    healthBody   \* health: the JSON object answered

varsA == <<voicesDir, tmpfs, nReq, endpoint, data, pc, tmp_path, output_path,
           piper, sox, mktempOK, created, resp, piper_available, healthBody>>

VARIABLES
    kokoro_pipeline, \* the global engine handle; 0 is None
    loads,       \* load/download sequences begun in get_kokoro (line 29)
    queue,       \* connections waiting in the listening socket, oldest first
    nArr,        \* requests arrived so far
    cur,         \* request the server is handling; 0 if none
    pcB,         \* where do_POST stands
    dataB,       \* request -> JSON body
    respB,       \* request -> response
    used,        \* request -> handle get_kokoro returned to it; 0 if none
    arrivedUnset,\* request -> when it arrived the handle was unset and no
                 \* request had been answered yet
    ranLoad,     \* request -> it ran the load sequence
    invoked,     \* request -> kokoro.create was called for it
    tmpB,        \* request -> content of its temporary file, "absent" if none
    outB         \* request -> content of the file at its output_path

varsB == <<kokoro_pipeline, loads, queue, nArr, cur, pcB, dataB, respB, used,
           arrivedUnset, ranLoad, invoked, tmpB, outB>>

vars == <<varsA, varsB>>

\* os.path.exists(os.path.join(VOICES_DIR, f'{voice_name}.onnx'))
ModelExists(dir, voice_name) ==
    dir.exists /\ DirFile(voice_name, ".onnx") \in dir.files

\* data.get('text', '').strip()
TextOf(d) == Strip(IF d.hasText THEN d.text ELSE <<>>)

\* data.get('voice', DEFAULT_VOICE)
VoiceOf(d) == IF d.hasVoice THEN d.voice ELSE DEFAULT_VOICE

\* Mutant of ValidateRequest: the check of the model file (lines 74-75) is lost
ValidateRequestNoVoiceCheck(d, dir) ==
    IF ~d.hasText /\ ~d.hasVoice
    THEN JsonError(400, "No JSON data provided", "")
    ELSE IF TextOf(d) = <<>>
    THEN JsonError(400, "No text provided", "")
    ELSE NoResp

\* generate, lines 60-75: the response of a rejected request, NoResp if the
\* request passes
ValidateRequest(d, dir) ==
    IF ~d.hasText /\ ~d.hasVoice
    THEN JsonError(400, "No JSON data provided", "")
    ELSE IF TextOf(d) = <<>>
    THEN JsonError(400, "No text provided", "")
    ELSE IF ~ModelExists(dir, VoiceOf(d))
    THEN JsonError(404, "Voice not found: ", VoiceOf(d))
    ELSE NoResp

NoHealth == [status |-> "", piper_available |-> FALSE, voices_count |-> 0]

InitA ==
    /\ voicesDir \in VoicesDirStates
    /\ tmpfs = [p \in TmpNames |-> "absent"]
    /\ nReq = 0
    /\ endpoint = "none"
    /\ data = NoData
    /\ pc = "idle"
    /\ tmp_path = NoPath
    /\ output_path = NoPath
    /\ piper = "notrun"
    /\ sox = "notrun"
    /\ mktempOK = FALSE
    /\ created = {}
    /\ resp = NoResp
    /\ piper_available = FALSE
    /\ healthBody = NoHealth

\* A request reaches a route of the Flask application
Receive ==
    /\ pc \in {"idle", "done"}
    /\ nReq < MaxRequests
    /\ nReq' = nReq + 1
    /\ \E e \in {"generate", "test", "health"} :
          /\ endpoint' = e
          /\ pc' = e
          /\ IF e = "health" THEN data' = NoData ELSE data' \in Inputs
    /\ tmp_path' = NoPath
    /\ output_path' = NoPath
    /\ piper' = "notrun"
    /\ sox' = "notrun"
    /\ mktempOK' = FALSE
    /\ created' = {}
    /\ resp' = NoResp
    /\ piper_available' = FALSE
    /\ healthBody' = NoHealth
    /\ UNCHANGED <<voicesDir, tmpfs>>
    /\ UNCHANGED varsB

Respond(r) ==
    /\ resp' = r
    /\ pc' = "done"

\* generate, lines 60-75
Validate ==
    /\ pc = "generate"
    /\ LET r == ValidateRequest(data, voicesDir) IN
          IF r # NoResp
          THEN Respond(r)
          ELSE /\ pc' = "mktemp"
               /\ resp' = resp
    /\ UNCHANGED <<voicesDir, tmpfs, nReq, endpoint, data, tmp_path,
                   output_path, piper, sox, mktempOK, created,
                   piper_available, healthBody>>
    /\ UNCHANGED varsB

\* generate, lines 79-80: NamedTemporaryFile(suffix='.wav', delete=False)
\* creates an empty file, or raises (caught at line 139)
MkTemp ==
    /\ pc = "mktemp"
    /\ \/ /\ tmp_path' = TmpName(nReq)
          /\ tmpfs' = [tmpfs EXCEPT ![TmpName(nReq)] = "empty"]
          /\ created' = created \cup {TmpName(nReq)}
          /\ mktempOK' = TRUE
          /\ pc' = "piper"
          /\ resp' = resp
       \/ /\ Respond(JsonError(500, "str(e)", "OSError"))
          /\ UNCHANGED <<tmp_path, tmpfs, created, mktempOK>>
    /\ UNCHANGED <<voicesDir, nReq, endpoint, data, output_path, piper, sox,
                   piper_available, healthBody>>
    /\ UNCHANGED varsB

\* What piper leaves in --output_file, by outcome
PiperWrites(outcome) ==
    CASE outcome = "rc0" -> {"piper"}
      [] outcome = "rc1" -> {"empty", "partial"}
      [] outcome = "timeout" -> {"empty", "partial"}
      [] outcome = "oserror" -> {"empty"}

\* The response of generate after subprocess.run(piper_cmd, timeout=30),
\* lines 99-101, 137-140; NoResp when piper returned 0
PiperResponse(outcome) ==
    CASE outcome = "rc0" -> NoResp
      [] outcome = "rc1" -> JsonError(500, "Piper failed: ", "stderr")
      [] outcome = "timeout" -> JsonError(500, "TTS generation timed out", "")
      [] outcome = "oserror" -> JsonError(500, "str(e)", "OSError")

\* generate, lines 84-101
RunPiper ==
    /\ pc = "piper"
    /\ \E outcome \in {"rc0", "rc1", "timeout", "oserror"} :
          /\ piper' = outcome
          /\ \E c \in PiperWrites(outcome) :
                tmpfs' = [tmpfs EXCEPT ![tmp_path] = c]
          /\ IF PiperResponse(outcome) # NoResp
             THEN Respond(PiperResponse(outcome))
             ELSE /\ pc' = "sox"
                  /\ resp' = resp
    /\ UNCHANGED <<voicesDir, nReq, endpoint, data, tmp_path, output_path,
                   sox, mktempOK, created, piper_available, healthBody>>
    /\ UNCHANGED varsB

\* What sox leaves at its output path, by outcome
SoxWrites(outcome) ==
    CASE outcome = "rc0" -> {"sox8k"}
      [] outcome = "rc1" -> {"absent", "partial"}
      [] outcome = "timeout" -> {"absent", "partial"}
      [] outcome = "oserror" -> {"absent"}

\* An exception of subprocess.run(sox_cmd, timeout=10) leaves the try block,
\* lines 137-140; NoResp when sox returned
SoxResponse(outcome) ==
    CASE outcome = "rc0" -> NoResp
      [] outcome = "rc1" -> NoResp
      [] outcome = "timeout" -> JsonError(500, "TTS generation timed out", "")
      [] outcome = "oserror" -> JsonError(500, "str(e)", "OSError")

\* generate, lines 104-112
RunSox ==
    /\ pc = "sox"
    /\ output_path' = Replace8k(tmp_path)
    /\ \E outcome \in {"rc0", "rc1", "timeout", "oserror"} :
          /\ sox' = outcome
          /\ \E c \in SoxWrites(outcome) :
                /\ tmpfs' = [tmpfs EXCEPT ![Replace8k(tmp_path)] = c]
                /\ created' =
                      IF c = "absent" THEN created
                      ELSE created \cup {Replace8k(tmp_path)}
          /\ IF SoxResponse(outcome) # NoResp
             THEN Respond(SoxResponse(outcome))
             ELSE /\ pc' = "finish"
                  /\ resp' = resp
    /\ UNCHANGED <<voicesDir, nReq, endpoint, data, tmp_path, piper, mktempOK,
                   piper_available, healthBody>>
    /\ UNCHANGED varsB

\* os.unlink(p) under `if os.path.exists(p)`
Unlink(fs, p) == [fs EXCEPT ![p] = "absent"]

\* generate, lines 118-120: the file that is read back
ReadPath(soxOutcome, tmp, out) == IF soxOutcome # "rc0" THEN tmp ELSE out

\* generate, lines 114-135
Finish ==
    /\ pc = "finish"
    /\ LET fs1 == Unlink(tmpfs, tmp_path)
           out == ReadPath(sox, tmp_path, output_path)
       IN  /\ output_path' = out
           /\ IF fs1[out] = "absent"
              THEN \* open(output_path, 'rb') raises FileNotFoundError
                   /\ tmpfs' = fs1
                   /\ Respond(JsonError(500, "str(e)", "FileNotFoundError"))
              ELSE /\ tmpfs' = Unlink(fs1, out)
                   /\ Respond(Resp(200, "audio", "", "output.wav", fs1[out]))
    /\ UNCHANGED <<voicesDir, nReq, endpoint, data, tmp_path, piper, sox,
                   mktempOK, created, piper_available, healthBody>>
    /\ UNCHANGED varsB

\* test, lines 243-244: request.args.get with the built-in defaults
QueryData(args) ==
    Data(TRUE, IF args.hasText THEN args.text ELSE TEST_TEXT, TRUE, VoiceOf(args))

\* test, line 247: app.route() registers generate and hands back the plain
\* function, which has no attribute __wrapped__, so the attribute lookup
\* raises AttributeError before generate is entered (and generate takes no
\* arguments); outside any try block, the exception reaches Flask, which
\* answers with its own 500 page.
TestResponse(args) == Resp(500, "html", "Internal Server Error", "", "absent")

\* test, lines 241-247
Test ==
    /\ pc = "test"
    /\ Respond(TestResponse(QueryData(data)))
    /\ UNCHANGED <<voicesDir, tmpfs, nReq, endpoint, data, tmp_path,
                   output_path, piper, sox, mktempOK, created,
                   piper_available, healthBody>>
    /\ UNCHANGED varsB

\* health, lines 219-224: `piper --help` under timeout=5; any exception is
\* swallowed by the bare except
ProbeAvailable(outcome) ==
    CASE outcome = "rc0" -> TRUE
      [] outcome = "rc1" -> FALSE
      [] outcome = "timeout" -> FALSE
      [] outcome = "oserror" -> FALSE

\* health, lines 219-224
HealthProbe ==
    /\ pc = "health"
    /\ \E outcome \in {"rc0", "rc1", "timeout", "oserror"} :
          /\ piper' = outcome
          /\ piper_available' = ProbeAvailable(outcome)
    /\ pc' = "health_count"
    /\ UNCHANGED <<voicesDir, tmpfs, nReq, endpoint, data, tmp_path,
                   output_path, sox, mktempOK, created, resp, healthBody>>
    /\ UNCHANGED varsB

\* health, lines 227-229
VoicesCount(dir) ==
    IF dir.exists
    THEN Cardinality({f \in dir.files : EndsWithOnnx(f)})
    ELSE 0

\* Mutant of HealthStatus: `or` in place of `and`
HealthStatusOr(available, voices_count) ==
    IF available \/ voices_count > 0 THEN "ok" ELSE "degraded"

\* health, line 231
HealthStatus(available, voices_count) ==
    IF available /\ voices_count > 0 THEN "ok" ELSE "degraded"

\* health, lines 226-238
HealthRespond ==
    /\ pc = "health_count"
    /\ healthBody' =
          [status |-> HealthStatus(piper_available, VoicesCount(voicesDir)),
           piper_available |-> piper_available,
           voices_count |-> VoicesCount(voicesDir)]
    /\ Respond(Resp(200, "json", "health", "", "absent"))
    /\ UNCHANGED <<voicesDir, tmpfs, nReq, endpoint, data, tmp_path,
                   output_path, piper, sox, mktempOK, created, piper_available>>
    /\ UNCHANGED varsB

\* ==================================================== Service B (kokoro)
Requests == 1..MaxRequestsB

\* JSON body of POST /synthesize: text a string or absent, output_path given
\* or not
DataB(hasText, text, hasOut) ==
    [hasText |-> hasText, text |-> text, hasOut |-> hasOut]
\* do_POST looks at the text only to see whether it is empty: one text of
\* each kind
TextsB == {<<>>, <<" ">>, <<"a">>}
InputsB ==
    {DataB(FALSE, <<>>, o) : o \in BOOLEAN}
        \cup {DataB(TRUE, t, o) : t \in TextsB, o \in BOOLEAN}
NoDataB == DataB(FALSE, <<>>, FALSE)

\* do_POST, line 98: data.get('text', '')
TextB(d) == IF d.hasText THEN d.text ELSE <<>>

\* do_POST, line 102: `not text`
NoText(d) == TextB(d) = <<>>

\* Mutant of NeedsLoad: the handle is not looked at, every call loads
NeedsLoadAlways(handle) == TRUE

\* get_kokoro, line 28: `kokoro_pipeline is None`
NeedsLoad(handle) == handle = 0

InitB ==
    /\ kokoro_pipeline = 0
    /\ loads = 0
    /\ queue = <<>>
    /\ nArr = 0
    /\ cur = 0
    /\ pcB = "idle"
    /\ dataB = [r \in Requests |-> NoDataB]
    /\ respB = [r \in Requests |-> NoResp]
    /\ used = [r \in Requests |-> 0]
    /\ arrivedUnset = [r \in Requests |-> FALSE]
    /\ ranLoad = [r \in Requests |-> FALSE]
    /\ invoked = [r \in Requests |-> FALSE]
    /\ tmpB = [r \in Requests |-> "absent"]
    /\ outB = [r \in Requests |-> "absent"]

\* A client connects and posts to /synthesize; the connection waits in the
\* listening socket until the server accepts it
Arrive ==
    /\ nArr < MaxRequestsB
    /\ nArr' = nArr + 1
    /\ queue' = Append(queue, nArr + 1)
    /\ \E d \in InputsB : dataB' = [dataB EXCEPT ![nArr + 1] = d]
    /\ arrivedUnset' =
          [arrivedUnset EXCEPT ![nArr + 1] =
              kokoro_pipeline = 0 /\ \A q \in 1..nArr : respB[q] = NoResp]
    /\ UNCHANGED <<kokoro_pipeline, loads, cur, pcB, respB, used, ranLoad,
                   invoked, tmpB, outB>>
    /\ UNCHANGED varsA

\* main, lines 158-163: HTTPServer.serve_forever takes the next connection
\* only when the handler of the previous one has returned
Accept ==
    /\ pcB = "idle"
    /\ queue # <<>>
    /\ cur' = Head(queue)
    /\ queue' = Tail(queue)
    /\ pcB' = "parse"
    /\ UNCHANGED <<kokoro_pipeline, loads, nArr, dataB, respB, used,
                   arrivedUnset, ranLoad, invoked, tmpB, outB>>
    /\ UNCHANGED varsA

\* The handler writes its response and returns to serve_forever
RespondB(r) ==
    /\ respB' = [respB EXCEPT ![cur] = r]
    /\ pcB' = "idle"
    /\ cur' = 0

\* do_POST, lines 147-152
Error500(e) == JsonError(500, "str(e)", e)

\* do_POST, lines 94-109
Parse ==
    /\ pcB = "parse"
    /\ IF NoText(dataB[cur])
       THEN RespondB(JsonError(400, "No text provided", ""))
       ELSE /\ pcB' = "get_kokoro"
            /\ UNCHANGED <<respB, cur>>
    /\ UNCHANGED <<kokoro_pipeline, loads, queue, nArr, dataB, used,
                   arrivedUnset, ranLoad, invoked, tmpB, outB>>
    /\ UNCHANGED varsA

\* get_kokoro, lines 27-29 and 67
GetKokoro ==
    /\ pcB = "get_kokoro"
    /\ IF NeedsLoad(kokoro_pipeline)
       THEN /\ loads' = loads + 1
            /\ ranLoad' = [ranLoad EXCEPT ![cur] = TRUE]
            /\ pcB' = "load_direct"
            /\ used' = used
       ELSE /\ used' = [used EXCEPT ![cur] = kokoro_pipeline]
            /\ pcB' = "create"
            /\ UNCHANGED <<loads, ranLoad>>
    /\ UNCHANGED <<kokoro_pipeline, queue, nArr, cur, dataB, respB,
                   arrivedUnset, invoked, tmpB, outB>>
    /\ UNCHANGED varsA

\* The object a Kokoro(...) call of the loads-th sequence constructs
NewHandle(n) == n

\* get_kokoro, lines 30-38: Kokoro(...) from the working directory returns,
\* or the import or the constructor raises
LoadDirect ==
    /\ pcB = "load_direct"
    /\ \/ /\ kokoro_pipeline' = NewHandle(loads)
          /\ used' = [used EXCEPT ![cur] = NewHandle(loads)]
          /\ pcB' = "create"
       \/ /\ pcB' = "download"
          /\ UNCHANGED <<kokoro_pipeline, used>>
    /\ UNCHANGED <<loads, queue, nArr, cur, dataB, respB, arrivedUnset,
                   ranLoad, invoked, tmpB, outB>>
    /\ UNCHANGED varsA

\* get_kokoro, lines 39-66: the downloads and the second Kokoro(...) return,
\* or one of them raises and get_kokoro re-raises into do_POST's handler
DownloadLoad ==
    /\ pcB = "download"
    /\ \/ /\ kokoro_pipeline' = NewHandle(loads)
          /\ used' = [used EXCEPT ![cur] = NewHandle(loads)]
          /\ pcB' = "create"
          /\ UNCHANGED <<respB, cur>>
       \/ /\ RespondB(Error500("load"))
          /\ UNCHANGED <<kokoro_pipeline, used>>
    /\ UNCHANGED <<loads, queue, nArr, dataB, arrivedUnset, ranLoad, invoked,
                   tmpB, outB>>
    /\ UNCHANGED varsA

\* do_POST, lines 115-120: kokoro.create returns samples, or raises
Create ==
    /\ pcB = "create"
    /\ invoked' = [invoked EXCEPT ![cur] = TRUE]
    /\ \/ /\ pcB' = IF dataB[cur].hasOut THEN "save" ELSE "mktemp"
          /\ UNCHANGED <<respB, cur>>
       \/ RespondB(Error500("create"))
    /\ UNCHANGED <<kokoro_pipeline, loads, queue, nArr, dataB, used,
                   arrivedUnset, ranLoad, tmpB, outB>>
    /\ UNCHANGED varsA

\* do_POST, lines 120-132: sf.write(output_path, ...) returns, or raises
Save ==
    /\ pcB = "save"
    /\ \/ /\ outB' = [outB EXCEPT ![cur] = "wav"]
          /\ RespondB(Resp(200, "json", "success", "output_path", "absent"))
       \/ /\ \E c \in {"absent", "partial"} : outB' = [outB EXCEPT ![cur] = c]
          /\ RespondB(Error500("write"))
    /\ UNCHANGED <<kokoro_pipeline, loads, queue, nArr, dataB, used,
                   arrivedUnset, ranLoad, invoked, tmpB>>
    /\ UNCHANGED varsA

\* do_POST, line 135: NamedTemporaryFile(suffix='.wav', delete=False) creates
\* an empty file, or raises
MkTempB ==
    /\ pcB = "mktemp"
    /\ \/ /\ tmpB' = [tmpB EXCEPT ![cur] = "empty"]
          /\ pcB' = "inline"
          /\ UNCHANGED <<respB, cur>>
       \/ /\ RespondB(Error500("mktemp"))
          /\ tmpB' = tmpB
    /\ UNCHANGED <<kokoro_pipeline, loads, queue, nArr, dataB, used,
                   arrivedUnset, ranLoad, invoked, outB>>
    /\ UNCHANGED varsA

\* do_POST, lines 136-139, the body of the with block: what is left of the
\* temporary file when sf.write returned (wrote = TRUE: the file is read back
\* and unlinked) and when it raised (the block is left before os.unlink, and
\* delete=False keeps the file)
AfterWith(wrote, left) == IF wrote THEN "absent" ELSE left

\* do_POST, lines 136-145
Inline ==
    /\ pcB = "inline"
    /\ \/ /\ tmpB' = [tmpB EXCEPT ![cur] = AfterWith(TRUE, "wav")]
          /\ RespondB(Resp(200, "audio", "", "", "wav"))
       \/ /\ \E c \in {"empty", "partial"} :
                tmpB' = [tmpB EXCEPT ![cur] = AfterWith(FALSE, c)]
          /\ RespondB(Error500("write"))
    /\ UNCHANGED <<kokoro_pipeline, loads, queue, nArr, dataB, used,
                   arrivedUnset, ranLoad, invoked, outB>>
    /\ UNCHANGED varsA

\* ======================================================== specifications
NextA ==
    \/ Receive
    \/ Validate
    \/ MkTemp
    \/ RunPiper
    \/ RunSox
    \/ Finish
    \/ Test
    \/ HealthProbe
    \/ HealthRespond

\* Service A runs with the state of Service B at rest
InitSA == InitA /\ InitB

SpecA == InitSA /\ [][NextA]_vars

NextB ==
    \/ Arrive
    \/ Accept
    \/ Parse
    \/ GetKokoro
    \/ LoadDirect
    \/ DownloadLoad
    \/ Create
    \/ Save
    \/ MkTempB
    \/ Inline

\* Service B runs with the state of Service A at rest
InitSB ==
    /\ InitB
    /\ InitA
    /\ voicesDir = [exists |-> FALSE, files |-> {}]

SpecB == InitSB /\ [][NextB]_vars

\* ================================================================ claims
DoneA(e) == pc = "done" /\ endpoint = e

\* Text that is absent, empty, or whitespace only
Blank(hasText, text) ==
    ~hasText \/ \A i \in 1..Len(text) : text[i] \in Whitespace

\* C1: once /generate has answered, no temporary file the request created
\* (tmp_path or '<tmp>_8k.wav') is left on disk, whichever way it ended.
C1_NoTempFileLeft ==
    DoneA("generate") => \A p \in created : tmpfs[p] = "absent"

\* C2: when piper succeeded and sox then fails (non-zero exit, timeout, or
\* cannot be run), /generate still answers 200 with exactly the audio piper
\* wrote.
C2_ResampleFailureFallsBack ==
    (DoneA("generate") /\ piper = "rc0" /\ sox \in {"rc1", "timeout", "oserror"})
        => resp = Resp(200, "audio", "", "output.wav", "piper")

\* The status the order of precedence of C4 gives: 400, else 404, else 500
\* for a piper failure, piper timeout or unexpected exception, else 200
C4_Expected ==
    IF Blank(data.hasText, data.text) THEN 400
    ELSE IF ~ModelExists(voicesDir, VoiceOf(data)) THEN 404
    ELSE IF ~mktempOK \/ piper \in {"rc1", "timeout", "oserror"} THEN 500
    ELSE 200

\* C4: every /generate request ends with one response whose status follows
\* the precedence 400 (no text), 404 (no model file), 500 with a JSON error
\* (piper non-zero exit, piper timeout, unexpected exception), 200 with audio
\* in all remaining cases.
C4_StatusPrecedence ==
    DoneA("generate") =>
        /\ resp.status = C4_Expected
        /\ resp.kind = IF resp.status = 200 THEN "audio" ELSE "json"

\* C5: a /generate request answered 400 or 404 has created no temporary file
\* and has run neither piper nor sox; blank text is answered 400, a missing
\* model file 404 with the voice id in the message; piper runs only after
\* both checks have passed.
C5_ValidationBeforeSideEffects ==
    endpoint = "generate" =>
        /\ (pc = "done" /\ resp.status \in {400, 404}) =>
              /\ created = {}
              /\ ~mktempOK
              /\ piper = "notrun"
              /\ sox = "notrun"
              /\ \A p \in TmpNames : p[1] = nReq => tmpfs[p] = "absent"
        /\ (pc = "done" /\ Blank(data.hasText, data.text)) => resp.status = 400
        /\ (pc = "done" /\ ~Blank(data.hasText, data.text)
                /\ ~ModelExists(voicesDir, VoiceOf(data))) =>
              resp = JsonError(404, "Voice not found: ", VoiceOf(data))
        /\ (piper # "notrun" \/ mktempOK) =>
              /\ ~Blank(data.hasText, data.text)
              /\ ModelExists(voicesDir, VoiceOf(data))

C5_Witness ==
    /\ DoneA("generate")
    /\ data.hasVoice
    /\ voicesDir.exists
    /\ resp = JsonError(404, "Voice not found: ", data.voice)

\* C6: GET /test answers what POST /generate answers for the same text and
\* voice: the same rejection when generate rejects the request, and otherwise
\* a response of generate's synthesis (the engine is run, 200 with audio or
\* 500 with a JSON error).
C6_TestEqualsGenerate ==
    DoneA("test") =>
        LET v == ValidateRequest(QueryData(data), voicesDir) IN
            IF v # NoResp
            THEN resp = v
            ELSE /\ resp.kind \in {"audio", "json"}
                 /\ resp.status \in {200, 500}
                 /\ (mktempOK => piper # "notrun")

\* C7: GET /health always answers 200; the status is "ok" exactly when the
\* probe returned 0 and at least one .onnx file is installed, "degraded"
\* otherwise; a probe that fails or times out counts as unavailable.
C7_HealthNeverFails ==
    /\ (endpoint = "health" /\ resp # NoResp) => resp.status = 200
    /\ DoneA("health") =>
          /\ resp.status = 200
          /\ healthBody.status \in {"ok", "degraded"}
          /\ healthBody.status = "ok" <=>
                /\ piper = "rc0"
                /\ voicesDir.exists
                /\ \E f \in voicesDir.files : f.ext = ".onnx"
          /\ healthBody.piper_available <=> piper = "rc0"

C7_Witness ==
    /\ DoneA("health")
    /\ piper = "timeout"
    /\ healthBody.voices_count > 0
    /\ healthBody.status = "degraded"

\* Requests of Service B that have been answered
Answered(r) == respB[r] # NoResp

\* The requests that were waiting together while the handle was unset and
\* that need the engine
C3_Concurrent ==
    {r \in 1..nArr : arrivedUnset[r] /\ ~NoText(dataB[r])}

\* C3: for requests that arrive concurrently while the handle is unset, the
\* load/download sequence of get_kokoro runs exactly once in total and all
\* of them get the same handle.
C3_ExactlyOneLoad ==
    (Cardinality(C3_Concurrent) >= 2 /\ \A r \in C3_Concurrent : Answered(r)) =>
        /\ loads = 1
        /\ \A r, q \in C3_Concurrent :
              (used[r] # 0 /\ used[q] # 0) => used[r] = used[q]

\* C8: a /synthesize request whose text is absent, empty or whitespace only
\* is answered 400 "No text provided", and the engine is neither initialised
\* nor invoked for it.
C8_BlankTextRejected ==
    \A r \in 1..nArr :
        Blank(dataB[r].hasText, dataB[r].text) =>
            /\ ~ranLoad[r]
            /\ ~invoked[r]
            /\ used[r] = 0
            /\ Answered(r) => respB[r] = JsonError(400, "No text provided", "")

\* C9: a /synthesize request without output_path leaves no temporary file
\* behind once it is answered, also when writing the audio raises and the
\* answer is 500.
C9_TempFileDeleted ==
    \A r \in 1..nArr :
        (Answered(r) /\ ~dataB[r].hasOut) => tmpB[r] = "absent"

\* C10: over sequentially handled requests with non-empty text, the handle
\* is set only by a load that succeeded; a request whose direct load and
\* download-then-load both raise is answered 500 and leaves the handle
\* unset, and the next request starts the load sequence again; once the
\* handle is set no request runs a load and the handle never changes.
C10_HandleLifecycle ==
    [][ /\ (kokoro_pipeline' # kokoro_pipeline) =>
              /\ kokoro_pipeline = 0
              /\ pcB \in {"load_direct", "download"}
              /\ pcB' = "create"
              /\ used'[cur] = kokoro_pipeline'
        /\ (pcB = "download" /\ pcB' = "idle") =>
              /\ respB'[cur].status = 500
              /\ kokoro_pipeline' = 0
        /\ (pcB = "get_kokoro" /\ pcB' # pcB /\ kokoro_pipeline = 0) =>
              /\ pcB' = "load_direct"
              /\ loads' = loads + 1
        /\ (kokoro_pipeline # 0) =>
              /\ kokoro_pipeline' = kokoro_pipeline
              /\ loads' = loads
              /\ pcB' \notin {"load_direct", "download"}
      ]_vars

\* The first request failed to initialise, the second ran the sequence again
\* and set the handle, the third used it without loading
C10_Witness ==
    /\ nArr = 3
    /\ \A r \in 1..3 : Answered(r)
    /\ respB[1].status = 500 /\ ranLoad[1] /\ used[1] = 0 /\ ~invoked[1]
    /\ ranLoad[2] /\ used[2] = 2 /\ kokoro_pipeline = 2 /\ loads = 2
    /\ ~ranLoad[3] /\ used[3] = 2 /\ respB[3].status = 200
====
